---- MODULE Spec2Model ----
(***************************************************************************)
(* AHP survey back end (google-apps-script.js): doPost receives a          *)
(* submission, appends it to the raw-data sheet, computes the AHP weights  *)
(* and the consistency ratio of every section, appends the result rows and *)
(* answers with JSON.                                                      *)
(*                                                                         *)
(* Numbers are JavaScript numbers.  They are modelled as exact rationals   *)
(* together with the IEEE-754 special values +Infinity, -Infinity and NaN, *)
(* with the rules of JavaScript arithmetic for the special values.  The    *)
(* sign of zero is not modelled: a zero is the positive zero.              *)
(***************************************************************************)
EXTENDS Integers, Sequences, FiniteSets, TLC

(***************************************************************************)
(* JavaScript numbers                                                      *)
(***************************************************************************)
Abs(x) == IF x < 0 THEN -x ELSE x

RECURSIVE Gcd(_, _)
Gcd(a, b) == IF b = 0 THEN a ELSE Gcd(b, a % b)

\* The rational p/q in lowest terms, q > 0.
Rat(p, q) ==
    LET g == Gcd(Abs(p), q)
    IN  [k |-> "num", n |-> p \div g, d |-> q \div g]

Num(i) == [k |-> "num", n |-> i, d |-> 1]
NaN == [k |-> "nan", n |-> 0, d |-> 1]
PosInf == [k |-> "inf", n |-> 1, d |-> 1]
NegInf == [k |-> "inf", n |-> -1, d |-> 1]
\* null and undefined, as far as `x != null` and `x === null` tell them apart
\* from a number (an absent ahp_ratio_aij, an unset matrix cell).
Null == [k |-> "null", n |-> 0, d |-> 1]

Inf(s) == IF s < 0 THEN NegInf ELSE PosInf
Sign(x) == IF x.n < 0 THEN -1 ELSE IF x.n > 0 THEN 1 ELSE 0
IsZero(x) == x.k = "num" /\ x.n = 0

\* x * y
Mul(x, y) ==
    IF x.k = "nan" \/ y.k = "nan" THEN NaN
    ELSE IF x.k = "inf" \/ y.k = "inf"
         THEN IF IsZero(x) \/ IsZero(y) THEN NaN ELSE Inf(Sign(x) * Sign(y))
         ELSE Rat(x.n * y.n, x.d * y.d)

\* x / y
Div(x, y) ==
    IF x.k = "nan" \/ y.k = "nan" THEN NaN
    ELSE IF x.k = "inf"
         THEN IF y.k = "inf" THEN NaN
              ELSE Inf(Sign(x) * (IF y.n < 0 THEN -1 ELSE 1))
         ELSE IF y.k = "inf" THEN Num(0)
              ELSE IF y.n = 0
                   THEN IF x.n = 0 THEN NaN ELSE Inf(Sign(x))
                   ELSE IF y.n < 0 THEN Rat(-(x.n * y.d), x.d * (-y.n))
                        ELSE Rat(x.n * y.d, x.d * y.n)

\* x + y
Add(x, y) ==
    IF x.k = "nan" \/ y.k = "nan" THEN NaN
    ELSE IF x.k = "inf"
         THEN IF y.k = "inf" /\ y.n # x.n THEN NaN ELSE x
         ELSE IF y.k = "inf" THEN y
              ELSE LET l == (x.d \div Gcd(x.d, y.d)) * y.d
                   IN  Rat(x.n * (l \div x.d) + y.n * (l \div y.d), l)

Neg(x) == IF x.k = "nan" THEN NaN ELSE [x EXCEPT !.n = -x.n]

\* x - y
Sub(x, y) == Add(x, Neg(y))

\* x < y (false when either side is NaN)
Less(x, y) ==
    IF x.k = "nan" \/ y.k = "nan" THEN FALSE
    ELSE IF x.k = "inf" THEN x.n < 0 /\ ~(y.k = "inf" /\ y.n < 0)
         ELSE IF y.k = "inf" THEN y.n > 0
              ELSE x.n * y.d < y.n * x.d

RECURSIVE IntPow(_, _)
IntPow(b, e) == IF e = 0 THEN 1 ELSE b * IntPow(b, e - 1)

\* The least r >= from with r^e >= x: the e-th root of x when x is a perfect
\* e-th power.
RECURSIVE IntRoot(_, _, _)
IntRoot(x, e, from) ==
    IF IntPow(from, e) >= x THEN from ELSE IntRoot(x, e, from + 1)

\* Math.pow(x, 1 / e) for an integer e >= 1.  The exponent 1/1 is the integer
\* 1 and Math.pow(x, 1) is x; for e >= 2 the exponent is not an integer, so a
\* negative finite base gives NaN, and both infinities give +Infinity.  The
\* root of a positive rational is exact when numerator and denominator are
\* perfect e-th powers, which is the case for every product of the ratios in
\* Ratios and their reciprocals and every order up to Cardinality(Items).
PowInv(x, e) ==
    IF e = 1 THEN x
    ELSE IF x.k = "nan" THEN NaN
    ELSE IF x.k = "inf" THEN PosInf
    ELSE IF x.n < 0 THEN NaN
    ELSE IF x.n = 0 THEN Num(0)
    ELSE Rat(IntRoot(x.n, e, 1), IntRoot(x.d, e, 1))

\* Math.round(x): the integer nearest to x, a tie going up.
MathRound(x) ==
    IF x.k # "num" THEN x
    ELSE Num((2 * x.n + x.d) \div (2 * x.d))

\* Math.round(x * 10000) / 10000
Round4(x) == Div(MathRound(Mul(x, Num(10000))), Num(10000))

(***************************************************************************)
(* Bounds and input domains                                                *)
(***************************************************************************)
\* Longest judgment list of a section.
MaxLen == 2
\* Number of requests doPost serves.
MaxRequests == 2

\* Item identifiers.  Array.prototype.sort() without a comparator orders
\* strings by their UTF-16 code units.
Items == {"A", "B", "C"}
CharCode(id) == CASE id = "A" -> 65 [] id = "B" -> 66 [] id = "C" -> 67

\* Values of ahp_ratio_aij: null, zero, a negative number, and 64 and 1/64
\* (sixth powers, so that square and cube roots of row products are
\* rational).
Ratios == {Null, Num(0), Num(-1), Num(64), Rat(1, 64)}

\* A judgment record {left, right, ahp_ratio_aij}.
Judgments == [left : Items, right : Items, ratio : Ratios]

\* The non-empty judgment lists of at most MaxLen records.
JudgmentLists == UNION {[1..len -> Judgments] : len \in 1..MaxLen}

(***************************************************************************)
(* calculateAHP, one section: item ids                                     *)
(***************************************************************************)
\* comparisons.flatMap(c => [c.left, c.right])
RECURSIVE FlatMapIds(_)
FlatMapIds(comparisons) ==
    IF comparisons = <<>> THEN <<>>
    ELSE <<Head(comparisons).left, Head(comparisons).right>>
             \o FlatMapIds(Tail(comparisons))

\* [...new Set(seq)]: the distinct elements in order of first appearance.
RECURSIVE SetOrder(_)
SetOrder(seq) ==
    IF seq = <<>> THEN <<>>
    ELSE LET init == SetOrder(SubSeq(seq, 1, Len(seq) - 1))
             last == seq[Len(seq)]
         IN  IF \E i \in 1..Len(init) : init[i] = last THEN init
             ELSE Append(init, last)

\* Insert x into the sorted sequence s, after the elements not greater.
RECURSIVE InsertSorted(_, _)
InsertSorted(s, x) ==
    IF s = <<>> THEN <<x>>
    ELSE IF CharCode(x) < CharCode(Head(s)) THEN <<x>> \o s
         ELSE <<Head(s)>> \o InsertSorted(Tail(s), x)

\* Array.prototype.sort() (stable, ascending)
RECURSIVE Sort(_)
Sort(seq) ==
    IF seq = <<>> THEN <<>>
    ELSE InsertSorted(Sort(SubSeq(seq, 1, Len(seq) - 1)), seq[Len(seq)])

\* const ids = [...new Set(comparisons.flatMap(...))].sort()
\* The ids in order of first appearance: the sort left out.
ArrivalOrderIds(comparisons) == SetOrder(FlatMapIds(comparisons))

SectionIds(comparisons) == Sort(SetOrder(FlatMapIds(comparisons)))

\* ids.indexOf(x), counted from 1; 0 when x is not in ids (the code's -1).
IndexOf(ids, x) ==
    IF \E i \in 1..Len(ids) : ids[i] = x
    THEN CHOOSE i \in 1..Len(ids) : ids[i] = x /\ \A h \in 1..(i - 1) : ids[h] # x
    ELSE 0

(***************************************************************************)
(* buildMatrix                                                             *)
(***************************************************************************)
\* The identity matrix with null off the diagonal.
InitMatrix(n) ==
    [i \in 1..n |-> [j \in 1..n |-> IF i = j THEN Num(1) ELSE Null]]

\* The loop body writing only cells that are still unset: the first judgment
\* of a pair wins.
ApplyComparisonFirstWins(matrix, ids, comp) ==
    LET i == IndexOf(ids, comp.left)
        j == IndexOf(ids, comp.right)
        ratio == comp.ratio
    IN  IF i >= 1 /\ j >= 1 /\ ratio # Null /\ (i = j \/ matrix[i][j] = Null)
        THEN LET m1 == [matrix EXCEPT ![i][j] = ratio]
             IN  [m1 EXCEPT ![j][i] = Div(Num(1), ratio)]
        ELSE matrix

\* One iteration of the loop over the comparisons.
ApplyComparison(matrix, ids, comp) ==
    LET i == IndexOf(ids, comp.left)
        j == IndexOf(ids, comp.right)
        ratio == comp.ratio
    IN  IF i >= 1 /\ j >= 1 /\ ratio # Null
        THEN LET m1 == [matrix EXCEPT ![i][j] = ratio]
             IN  [m1 EXCEPT ![j][i] = Div(Num(1), ratio)]
        ELSE matrix

RECURSIVE ApplyComparisons(_, _, _)
ApplyComparisons(matrix, ids, comparisons) ==
    IF comparisons = <<>> THEN matrix
    ELSE ApplyComparisons(ApplyComparison(matrix, ids, Head(comparisons)),
                          ids, Tail(comparisons))

\* Every cell still null becomes 1.
FillMatrix(matrix) ==
    [i \in DOMAIN matrix |->
        [j \in DOMAIN matrix[i] |->
            IF matrix[i][j] = Null THEN Num(1) ELSE matrix[i][j]]]

buildMatrix(ids, comparisons) ==
    FillMatrix(ApplyComparisons(InitMatrix(Len(ids)), ids, comparisons))

(***************************************************************************)
(* calculateWeights                                                        *)
(***************************************************************************)
\* product of row[1..j], starting from 1
RECURSIVE RowProduct(_, _)
RowProduct(row, j) ==
    IF j = 0 THEN Num(1) ELSE Mul(RowProduct(row, j - 1), row[j])

\* seq.reduce((a, b) => a + b, 0) over seq[1..j]
RECURSIVE SumTo(_, _)
SumTo(seq, j) ==
    IF j = 0 THEN Num(0) ELSE Add(SumTo(seq, j - 1), seq[j])

calculateWeights(matrix, n) ==
    LET geoMeans == [i \in 1..n |-> PowInv(RowProduct(matrix[i], n), n)]
        sum == SumTo(geoMeans, n)
    IN  [i \in 1..n |-> Div(geoMeans[i], sum)]

(***************************************************************************)
(* calculateCR                                                             *)
(***************************************************************************)
\* Random Index (Saaty)
RI ==
    <<Num(0), Num(0), Rat(58, 100), Rat(90, 100), Rat(112, 100), Rat(124, 100),
      Rat(132, 100), Rat(141, 100), Rat(145, 100), Rat(149, 100), Rat(151, 100),
      Rat(148, 100), Rat(156, 100), Rat(157, 100), Rat(159, 100), Rat(160, 100)>>

\* RI[n] || 1.5: the fallback is taken when RI[n] is undefined and when it
\* is 0, which is falsy.
RandomIndex(n) ==
    IF n \in DOMAIN RI /\ ~IsZero(RI[n]) THEN RI[n] ELSE Rat(3, 2)

calculateCR(matrix, weights, n) ==
    LET Aw == [i \in 1..n |->
                  SumTo([j \in 1..n |-> Mul(matrix[i][j], weights[j])], n)]
        lambdaSum == SumTo([i \in 1..n |-> Div(Aw[i], weights[i])], n)
        lambdaMax == Div(lambdaSum, Num(n))
        CI == Div(Sub(lambdaMax, Num(n)), Num(n - 1))
        ri == RandomIndex(n)
        CR == IF Less(Num(0), ri) THEN Div(CI, ri) ELSE Num(0)
    IN  [lambdaMax |-> lambdaMax, CI |-> CI, CR |-> CR]

(***************************************************************************)
(* calculateAHP: the body of the loop for one section                      *)
(***************************************************************************)
\* results[section], together with the loop's local values ids, matrix and
\* weights.
EvalSection(comparisons) ==
    LET ids == SectionIds(comparisons)
        n == Len(ids)
        matrix == buildMatrix(ids, comparisons)
        weights == calculateWeights(matrix, n)
        cr == calculateCR(matrix, weights, n)
    IN  [ids |-> ids,
         matrix |-> matrix,
         rawWeights |-> weights,
         result |->
            [n |-> n,
             weights |-> [id \in {ids[i] : i \in 1..n} |->
                             Round4(weights[IndexOf(ids, id)])],
             lambdaMax |-> Round4(cr.lambdaMax),
             CI |-> Round4(cr.CI),
             CR |-> Round4(cr.CR),
             consistent |-> Less(cr.CR, Rat(1, 10))]]

(***************************************************************************)
(* calculateAHP                                                            *)
(***************************************************************************)
\* const sections = ["dimensions", "A", "B", "C", "D"]
sections == <<"dimensions", "A", "B", "C", "D">>
SectionNames == {sections[i] : i \in DOMAIN sections}

\* Values of data.comparisons[section]: undefined (the key is absent), a
\* number other than 0 (truthy, and neither a length nor a flatMap), a list.
Undefined == [k |-> "undefined", v |-> <<>>]
NumberValue == [k |-> "number", v |-> <<>>]
List(v) == [k |-> "list", v |-> v]

\* The skip test without its length test: if (!comparisons) continue;
SkipSectionFalsyOnly(c) == c.k = "undefined"

\* if (!comparisons || comparisons.length === 0) continue;
SkipSection(c) == c.k = "undefined" \/ (c.k = "list" /\ Len(c.v) = 0)

\* The loop over sections[from..], results being the object built so far.
\* threw: a TypeError left the function (data.comparisons is undefined, or
\* comparisons.flatMap is not a function); results is then the value of the
\* local variable at the throw, which no caller receives.
RECURSIVE SectionLoop(_, _, _)
SectionLoop(data, from, results) ==
    IF from > Len(sections) THEN [threw |-> FALSE, results |-> results]
    ELSE IF ~data.hasComparisons THEN [threw |-> TRUE, results |-> results]
    ELSE LET section == sections[from]
             c == data.comparisons[section]
         IN  IF SkipSection(c) THEN SectionLoop(data, from + 1, results)
             ELSE IF c.k # "list" THEN [threw |-> TRUE, results |-> results]
             ELSE SectionLoop(data, from + 1,
                              results @@ (section :> EvalSection(c.v).result))

\* calculateAHP catching the error itself and returning what it has built.
calculateAHPPartial(data) ==
    [threw |-> FALSE, results |-> SectionLoop(data, 1, <<>>).results]

calculateAHP(data) == SectionLoop(data, 1, <<>>)

(***************************************************************************)
(* Spreadsheet                                                             *)
(***************************************************************************)
\* Sheets: "raw" is the raw-data sheet, "results" the AHP result sheet and
\* "weights_A" .. "weights_D" the per-section weight sheets.  A sheet is the
\* sequence of its rows; a sheet that does not exist has no row, since a
\* sheet is inserted together with its header row.  A row is abstracted to
\* the number of the request that appended it, the header row being 0.
WeightSections == <<"A", "B", "C", "D">>
WeightSheet(section) ==
    CASE section = "A" -> "weights_A" [] section = "B" -> "weights_B"
      [] section = "C" -> "weights_C" [] section = "D" -> "weights_D"
SheetNames == {"raw", "results"} \cup {WeightSheet(WeightSections[i]) : i \in 1..4}
HeaderRow == 0

\* let sheet = ss.getSheetByName(name);
\* if (!sheet) { sheet = ss.insertSheet(name); sheet.appendRow(header); }
EnsureSheet(ss, name) ==
    IF ss[name] = <<>> THEN [ss EXCEPT ![name] = <<HeaderRow>>] ELSE ss

AppendRow(ss, name, row) == [ss EXCEPT ![name] = Append(@, row)]

\* Rows of the sheet written by request r.
HasRow(ss, name, r) == \E i \in 1..Len(ss[name]) : ss[name][i] = r

\* saveRawData up to the read of data.meta, which throws when data is null.
saveRawData(ss, data, r) ==
    LET ss1 == EnsureSheet(ss, "raw")
    IN  IF data.k = "null" THEN [threw |-> TRUE, ss |-> ss1]
        ELSE [threw |-> FALSE, ss |-> AppendRow(ss1, "raw", r)]

\* if (!result || !result.weights) return; ... sheet.appendRow(row)
saveDetailedWeights(ss, sheetName, results, section, r) ==
    IF section \notin DOMAIN results THEN ss
    ELSE AppendRow(EnsureSheet(ss, sheetName), sheetName, r)

RECURSIVE SaveWeightsFrom(_, _, _, _)
SaveWeightsFrom(ss, results, from, r) ==
    IF from > Len(WeightSections) THEN ss
    ELSE SaveWeightsFrom(
             saveDetailedWeights(ss, WeightSheet(WeightSections[from]), results,
                                 WeightSections[from], r),
             results, from + 1, r)

\* saveResults appending to the weight sheets only.
saveResultsWeightsOnly(ss, results, r) == SaveWeightsFrom(ss, results, 1, r)

saveResults(ss, results, r) ==
    SaveWeightsFrom(AppendRow(EnsureSheet(ss, "results"), "results", r),
                    results, 1, r)

(***************************************************************************)
(* Requests and responses                                                  *)
(***************************************************************************)
\* Judgment lists a submission carries for a section.
SubmittedLists ==
    {<<>>, <<[left |-> "A", right |-> "B", ratio |-> Num(64)]>>}
SectionValues == {Undefined, NumberValue} \cup {List(v) : v \in SubmittedLists}

NoComparisons == [s \in SectionNames |-> Undefined]

\* e.postData.contents: text that is not JSON, the text "null", a submission
\* without a comparisons block, a submission with one.
Requests ==
    {[k |-> "garbage", hasComparisons |-> FALSE, comparisons |-> NoComparisons],
     [k |-> "null", hasComparisons |-> FALSE, comparisons |-> NoComparisons],
     [k |-> "data", hasComparisons |-> FALSE, comparisons |-> NoComparisons]}
    \cup {[k |-> "data", hasComparisons |-> TRUE, comparisons |-> c] :
             c \in [SectionNames -> SectionValues]}

NoRequest == [k |-> "none", hasComparisons |-> FALSE, comparisons |-> NoComparisons]

\* JSON.stringify writes NaN and the infinities as null.
JsonNumber(x) == IF x.k \in {"nan", "inf"} THEN Null ELSE x
JsonSection(res) ==
    [n |-> res.n,
     weights |-> [id \in DOMAIN res.weights |-> JsonNumber(res.weights[id])],
     lambdaMax |-> JsonNumber(res.lambdaMax),
     CI |-> JsonNumber(res.CI),
     CR |-> JsonNumber(res.CR),
     consistent |-> res.consistent]

NoResponse == [sent |-> FALSE, ok |-> FALSE, hasResults |-> FALSE, results |-> <<>>]
\* JSON.stringify({ ok: true, results: results })
OkResponse(results) ==
    [sent |-> TRUE, ok |-> TRUE, hasResults |-> TRUE,
     results |-> [s \in DOMAIN results |-> JsonSection(results[s])]]
\* JSON.stringify({ ok: false, error: err.toString() })
ErrorResponse == [sent |-> TRUE, ok |-> FALSE, hasResults |-> FALSE, results |-> <<>>]

(***************************************************************************)
(* State                                                                   *)
(***************************************************************************)
VARIABLES
    pc,         \* doPost: "idle", "parse", "saveRaw", "calc", "saveResults",
                \* "respond", "catch"
    run,        \* number of requests received
    request,    \* e.postData.contents of the request being served
    data,       \* const data
    results,    \* const results
    thrownAt,   \* the step whose exception the catch block holds, or "none"
    response,   \* the response of the request being served
    sheets,     \* the spreadsheet
    comps,      \* a section's judgment list, in submission order
    compsP,     \* the same records in another arrival order
    sec,        \* EvalSection of comps
    secP,       \* EvalSection of compsP
    gpc         \* "start", "evaluated", "permuted"

pvars == <<pc, run, request, data, results, thrownAt, response, sheets>>
gvars == <<comps, compsP, sec, secP, gpc>>
vars == <<pc, run, request, data, results, thrownAt, response, sheets,
          comps, compsP, sec, secP, gpc>>

(***************************************************************************)
(* doPost                                                                  *)
(***************************************************************************)
InitPost ==
    /\ pc = "idle"
    /\ run = 0
    /\ request = NoRequest
    /\ data = NoRequest
    /\ results = <<>>
    /\ thrownAt = "none"
    /\ response = NoResponse
    /\ sheets = [name \in SheetNames |-> <<>>]

Init ==
    /\ InitPost
    /\ comps = <<>>
    /\ compsP = <<>>
    /\ sec = <<>>
    /\ secP = <<>>
    /\ gpc = "unused"

\* The web app is called with a POST request.
Receive ==
    /\ pc = "idle"
    /\ run < MaxRequests
    /\ \E e \in Requests : request' = e
    /\ run' = run + 1
    /\ data' = NoRequest
    /\ results' = <<>>
    /\ thrownAt' = "none"
    /\ response' = NoResponse
    /\ pc' = "parse"
    /\ UNCHANGED sheets
    /\ UNCHANGED gvars

\* const data = JSON.parse(e.postData.contents);
JsonParse ==
    /\ pc = "parse"
    /\ IF request.k = "garbage"
       THEN /\ thrownAt' = "parse"
            /\ pc' = "catch"
            /\ UNCHANGED data
       ELSE /\ data' = request
            /\ pc' = "saveRaw"
            /\ UNCHANGED thrownAt
    /\ UNCHANGED <<run, request, results, response, sheets>>
    /\ UNCHANGED gvars

\* saveRawData(ss, data);
SaveRawData ==
    /\ pc = "saveRaw"
    /\ LET r == saveRawData(sheets, data, run)
       IN  /\ sheets' = r.ss
           /\ IF r.threw
              THEN thrownAt' = "saveRaw" /\ pc' = "catch"
              ELSE pc' = "calc" /\ UNCHANGED thrownAt
    /\ UNCHANGED <<run, request, data, results, response>>
    /\ UNCHANGED gvars

\* const results = calculateAHP(data);
CalculateAHP ==
    /\ pc = "calc"
    /\ LET r == calculateAHP(data)
       IN  IF r.threw
           THEN /\ thrownAt' = "calc"
                /\ pc' = "catch"
                /\ UNCHANGED results
           ELSE /\ results' = r.results
                /\ pc' = "saveResults"
                /\ UNCHANGED thrownAt
    /\ UNCHANGED <<run, request, data, response, sheets>>
    /\ UNCHANGED gvars

\* saveResults(ss, data, results);
SaveResults ==
    /\ pc = "saveResults"
    /\ sheets' = saveResults(sheets, results, run)
    /\ pc' = "respond"
    /\ UNCHANGED <<run, request, data, results, thrownAt, response>>
    /\ UNCHANGED gvars

\* return ... JSON.stringify({ ok: true, results: results })
RespondOk ==
    /\ pc = "respond"
    /\ response' = OkResponse(results)
    /\ pc' = "idle"
    /\ UNCHANGED <<run, request, data, results, thrownAt, sheets>>
    /\ UNCHANGED gvars

\* catch (err) { return ... JSON.stringify({ ok: false, error: ... }) }
RespondError ==
    /\ pc = "catch"
    /\ response' = ErrorResponse
    /\ pc' = "idle"
    /\ UNCHANGED <<run, request, data, results, thrownAt, sheets>>
    /\ UNCHANGED gvars

Next ==
    \/ Receive
    \/ JsonParse
    \/ SaveRawData
    \/ CalculateAHP
    \/ SaveResults
    \/ RespondOk
    \/ RespondError

Spec == Init /\ [][Next]_vars

(***************************************************************************)
(* The section evaluator on its own                                        *)
(***************************************************************************)
\* The arrival orders of a list: its permutations.
Permuted(list) ==
    LET n == Len(list)
        bij == {p \in [1..n -> 1..n] : \A i, j \in 1..n : i # j => p[i] # p[j]}
    IN  {[i \in 1..n |-> list[p[i]]] : p \in bij}

InitSection ==
    /\ comps \in JudgmentLists
    /\ compsP = <<>>
    /\ sec = <<>>
    /\ secP = <<>>
    /\ gpc = "start"
    /\ InitPost

\* The section evaluator applied to the list as submitted.
Evaluate ==
    /\ gpc = "start"
    /\ sec' = EvalSection(comps)
    /\ gpc' = "evaluated"
    /\ UNCHANGED <<comps, compsP, secP>>
    /\ UNCHANGED pvars

\* The section evaluator applied to the same records in another order.
EvaluatePermuted ==
    /\ gpc = "evaluated"
    /\ \E p \in Permuted(comps) :
          /\ compsP' = p
          /\ secP' = EvalSection(p)
    /\ gpc' = "permuted"
    /\ UNCHANGED <<comps, sec>>
    /\ UNCHANGED pvars

NextSection == Evaluate \/ EvaluatePermuted

SpecSection == InitSection /\ [][NextSection]_vars

(***************************************************************************)
(* Properties of the section evaluator (SpecSection)                       *)
(***************************************************************************)
Evaluated == gpc \in {"evaluated", "permuted"}
Order == Len(sec.ids)
Cell(id1, id2) == sec.matrix[IndexOf(sec.ids, id1)][IndexOf(sec.ids, id2)]
HasRatio(j) == j.ratio # Null
SamePair(j1, j2) ==
    \/ (j1.left = j2.left /\ j1.right = j2.right)
    \/ (j1.left = j2.right /\ j1.right = j2.left)
IsPositive(x) == x.k \in {"num", "inf"} /\ x.n > 0

\* C1: the matrix buildMatrix returns has 1 on its diagonal and
\* matrix[i][j] * matrix[j][i] = 1 for every i, j, whatever the judgment
\* list (self-comparisons and repeated pairs included).
C1_ReciprocalMatrix ==
    Evaluated =>
        \A i, j \in 1..Order :
            /\ sec.matrix[i][i] = Num(1)
            /\ Mul(sec.matrix[i][j], sec.matrix[j][i]) = Num(1)

\* C2: a judgment whose ratio is zero or negative writes nothing: unless a
\* judgment with a positive ratio sets the pair, the cells (left, right) and
\* (right, left) are both the default 1.
C2_NonPositiveRatioDiscarded ==
    Evaluated =>
        \A k \in DOMAIN comps :
            (/\ comps[k].ratio.k = "num"
             /\ comps[k].ratio.n <= 0
             /\ ~\E h \in DOMAIN comps :
                   SamePair(comps[h], comps[k]) /\ IsPositive(comps[h].ratio))
            => /\ Cell(comps[k].left, comps[k].right) = Num(1)
               /\ Cell(comps[k].right, comps[k].left) = Num(1)

\* C3: a section of order 1 or 2 has CR = 0 and consistent = true, whatever
\* its judgments contain.
C3_SmallOrderConsistent ==
    (Evaluated /\ sec.result.n \in {1, 2}) =>
        /\ sec.result.CR = Num(0)
        /\ sec.result.consistent

\* Two judgments of the same unordered pair agree when they leave the same
\* values in the pair's cells: same orientation and equal ratios, or, for
\* two distinct items, reversed orientation and reciprocal ratios.
Agree(j1, j2) ==
    \/ (j1.left = j2.left /\ j1.right = j2.right /\ j1.ratio = j2.ratio)
    \/ /\ j1.left = j2.right /\ j1.right = j2.left /\ j1.left # j1.right
       /\ j1.ratio = Div(Num(1), j2.ratio)
       /\ j2.ratio = Div(Num(1), j1.ratio)
NoConflict(list) ==
    \A h, k \in DOMAIN list :
        (HasRatio(list[h]) /\ HasRatio(list[k]) /\ SamePair(list[h], list[k]))
        => Agree(list[h], list[k])

\* C6 as stated: every permutation of a judgment list yields the same item
\* ordering, matrix, weights, lambdaMax, CI, CR and consistent.
C6_OrderIndependent == (gpc = "permuted") => sec = secP

\* C6 amended: the same, for judgment lists in which any two judgments with
\* a non-null ratio for the same unordered pair of items (an item with
\* itself included) agree.
C6_OrderIndependentNoConflict ==
    (gpc = "permuted" /\ NoConflict(comps)) => sec = secP

C6_Witness ==
    /\ gpc = "permuted"
    /\ NoConflict(comps)
    /\ compsP # comps
    /\ \E h, k \in DOMAIN comps :
          /\ comps[h].left = comps[k].right /\ comps[h].right = comps[k].left
          /\ comps[k].left # comps[k].right
          /\ IsPositive(comps[k].ratio)
    /\ sec = secP

\* C8: the weights of every matrix buildMatrix produces are as many as the
\* items, each strictly positive and finite, and sum to 1.
C8_WeightsPositiveSumToOne ==
    Evaluated =>
        /\ Len(sec.rawWeights) = Order
        /\ \A i \in 1..Order :
              sec.rawWeights[i].k = "num" /\ sec.rawWeights[i].n > 0
        /\ SumTo(sec.rawWeights, Order) = Num(1)

\* comps[k] is the last judgment with a ratio for its pair, and an earlier
\* judgment with a ratio for the same pair exists.
LastOfRepeatedPair(k) ==
    /\ HasRatio(comps[k])
    /\ comps[k].left # comps[k].right
    /\ \E h \in 1..(k - 1) : HasRatio(comps[h]) /\ SamePair(comps[h], comps[k])
    /\ \A h \in (k + 1)..Len(comps) :
          ~(HasRatio(comps[h]) /\ SamePair(comps[h], comps[k]))

\* C9: last write wins.  When two items are judged more than once with a
\* non-null ratio, in either orientation, the cells of the pair are those
\* of the last such judgment: matrix[left][right] is its ratio and
\* matrix[right][left] its reciprocal.
C9_LastWriteWins ==
    Evaluated =>
        \A k \in DOMAIN comps :
            LastOfRepeatedPair(k) =>
                /\ Cell(comps[k].left, comps[k].right) = comps[k].ratio
                /\ Cell(comps[k].right, comps[k].left) = Div(Num(1), comps[k].ratio)

C9_Witness ==
    /\ Evaluated
    /\ \E k \in DOMAIN comps :
          /\ LastOfRepeatedPair(k)
          /\ \E h \in 1..(k - 1) :
                /\ HasRatio(comps[h])
                /\ SamePair(comps[h], comps[k])
                /\ ~Agree(comps[h], comps[k])
          /\ Cell(comps[k].left, comps[k].right) = comps[k].ratio

(***************************************************************************)
(* Properties of doPost (Spec)                                             *)
(***************************************************************************)
\* The sections for which the submission carries at least one judgment.
Supplied(d) ==
    {s \in SectionNames : d.comparisons[s].k = "list" /\ Len(d.comparisons[s].v) >= 1}
Malformed(d) ==
    \E s \in SectionNames : d.comparisons[s].k \notin {"undefined", "list"}
Returned == pc \in {"saveResults", "respond"} \/ (pc = "idle" /\ response.ok)
ResultSheets == SheetNames \ {"raw"}

C5_AllOrNothing ==
    /\ (pc = "idle" /\ request.k = "data" /\ ~request.hasComparisons) =>
          /\ thrownAt = "calc"
          /\ response.sent /\ ~response.ok /\ ~response.hasResults
    /\ thrownAt = "calc" =>
          /\ results = <<>>
          /\ ~response.ok /\ ~response.hasResults /\ response.results = <<>>
          /\ \A name \in ResultSheets : ~HasRow(sheets, name, run)

\* A failure part way: a section had been evaluated when a later one threw.
C5_Witness ==
    /\ pc = "idle"
    /\ thrownAt = "calc"
    /\ response.sent
    /\ data.hasComparisons
    /\ DOMAIN calculateAHP(data).results # {}

\* C7: a malformed value of one section does not fail the submission, and
\* every other section's result is the one its judgment list gets in a
\* submission that holds it alone.
Alone(d, s) ==
    [d EXCEPT !.comparisons = [t \in SectionNames |->
                                  IF t = s THEN d.comparisons[s] ELSE Undefined]]
C7_SectionsIndependent ==
    (data.k = "data" /\ data.hasComparisons) =>
        /\ thrownAt # "calc"
        /\ Returned =>
              \A s \in Supplied(data) :
                  /\ s \in DOMAIN results
                  /\ results[s] = calculateAHP(Alone(data, s)).results[s]

\* C10: doPost parses, appends the raw-data row, computes, appends the
\* result rows and responds, in this order.  An ok response carries the
\* results and follows both appends; when the computation throws, the
\* raw-data row is there, no row of the request is in the result sheets and
\* the response is an error without results; every request gets a response.
C10_StepOrder ==
    /\ pc \in {"calc", "saveResults", "respond"} => HasRow(sheets, "raw", run)
    /\ pc = "respond" => HasRow(sheets, "results", run)
    /\ (response.sent /\ response.ok) =>
          /\ response.hasResults
          /\ HasRow(sheets, "raw", run)
          /\ HasRow(sheets, "results", run)
          /\ \A i \in DOMAIN WeightSections :
                WeightSections[i] \in DOMAIN results
                => HasRow(sheets, WeightSheet(WeightSections[i]), run)
    /\ thrownAt = "calc" =>
          /\ HasRow(sheets, "raw", run)
          /\ \A name \in ResultSheets : ~HasRow(sheets, name, run)
          /\ ~response.ok /\ ~response.hasResults
    /\ (pc = "idle" /\ run > 0) => response.sent
    /\ pc \in {"idle", "parse", "saveRaw", "calc", "saveResults", "respond", "catch"}

C10_Witness ==
    /\ pc = "idle"
    /\ run = 2
    /\ thrownAt = "calc"
    /\ response.sent /\ ~response.ok
    /\ HasRow(sheets, "raw", 2)
    /\ HasRow(sheets, "results", 1)
    /\ HasRow(sheets, "weights_A", 1)

====
